---- MODULE Spec2Model ----
(***************************************************************************)
(* Model of the geo resolvers of geodb.py: GeoDatabase_Base (loader,       *)
(* result cache, get_geodata) and its three children CountryLevel_GeoDB,   *)
(* ZIPLevel_GeoDB and ZIP_GeoIPDB, and of input_generator of               *)
(* elasticImporter.py.                                                     *)
(*                                                                         *)
(* Python values are records [t, s, n, l] (type tag, string, integer,      *)
(* list of strings); a dict is a function from key names to values; a      *)
(* table is a sequence of rows in rowid order.  A nullable numeric cell is *)
(* <<>> (NULL) or <<v>>.  Floats are integer valued and are formatted as   *)
(* Python formats such a float ("4.0").                                    *)
(***************************************************************************)
EXTENDS Integers, Sequences, FiniteSets, TLC

VARIABLES
    variant,          \* the class of the resolvers of this run
    db_file,          \* the file at db_path: <<>> (absent) or <<table>>
    npy_file,         \* db_folder/ip_int_to_list.npy: <<>> (absent) or <<array>>
    alive,            \* a resolver has been constructed and is in use
    did_load,         \* the live resolver's _load_database took the update branch
    table,            \* the rows the live resolver's connection reads
    ip_int_to_list,   \* self.ip_int_to_list
    results_cache,    \* self._results_cache
    cursor,           \* the rows self.cursor holds that fetchall has not consumed
    ncalls,           \* number of get_geodata calls made on the live resolver
    last,             \* the last completed get_geodata call and its outcome
    first_ret,        \* call -> the first Result Record returned for it
    pc,               \* per caller: where it is inside get_geodata
    tcall,            \* per caller: the call it is executing
    tres,             \* per caller: the rows its fetchall returned
    available_pragmas,\* what check_FTS5_support read at the last ZIPLevel_GeoDB(...)
    input,            \* the lines of args.input, each split at args.separator
    skip_first_line,  \* args.skip_first_line
    lineno,           \* number of lines the loop of input_generator has read
    ctr,              \* ctr of input_generator
    documents         \* the documents input_generator has yielded, in order

\* the resolvers of geodb.py
geo_vars == <<variant, db_file, npy_file, alive, did_load, table,
              ip_int_to_list, results_cache, cursor, ncalls, last, first_ret,
              pc, tcall, tres, available_pragmas>>

\* input_generator of elasticImporter.py
gen_vars == <<input, skip_first_line, lineno, ctr, documents>>

vars == <<geo_vars, gen_vars>>

------------------------------------------------------------------------------
(* Bounds of the model *)

\* ip query values range over 0..MaxQueryIp
MaxQueryIp == 4
\* a resolver receives at most MaxCalls get_geodata calls
MaxCalls == 2

------------------------------------------------------------------------------
(* Python values *)

PyStr(s)   == [t |-> "str",   s |-> s,  n |-> 0, l |-> <<>>]
PyInt(n)   == [t |-> "int",   s |-> "", n |-> n, l |-> <<>>]
PyBool(b)  == [t |-> "bool",  s |-> "", n |-> IF b THEN 1 ELSE 0, l |-> <<>>]
PyList(l)  == [t |-> "list",  s |-> "", n |-> 0, l |-> l]
PyTuple(l) == [t |-> "tuple", s |-> "", n |-> 0, l |-> l]

\* what a call returns or raises
RetDict(d)   == [kind |-> "dict", d |-> d, exc |-> ""]
RetNone      == [kind |-> "None", d |-> [k \in {} |-> ""], exc |-> ""]
RetFalse     == [kind |-> "False", d |-> [k \in {} |-> ""], exc |-> ""]
Raised(e)    == [kind |-> "raise", d |-> [k \in {} |-> ""], exc |-> e]

Null == <<>>
Some(v) == <<v>>

------------------------------------------------------------------------------
(* Snapshot files (the csv given as original_db_path) *)

Line(f, t, cc, pn, lat, lon) ==
    [ip_from |-> f, ip_to |-> t, country_code |-> cc, place_name |-> pn,
     latitude |-> lat, longitude |-> lon]

\* ascending contiguous ranges
SnapAscending ==
    << Line(0, 1, "US", "NEW YORK", Some(0), Some(0)),
       Line(2, 3, "MX", "LA",       Some(1), Some(3)) >>

\* a later release of the same data: other ranges, other rows; three rows
\* share a country, and the point nearest their centroid is the third
SnapChanged ==
    << Line(0, 0, "US", "LA",       Some(0), Some(0)),
       Line(1, 2, "US", "NEW YORK", Some(4), Some(0)),
       Line(3, 3, "US", "BOSTON",   Some(1), Some(1)) >>

\* ranges not sorted by ip_to
SnapUnsorted ==
    << Line(2, 3, "US", "LA",       Some(4), Some(0)),
       Line(0, 1, "MX", "LA",       Some(1), Some(3)) >>

\* a row with an empty latitude cell (read_csv: NaN, to_sql: NULL)
SnapNullCoord ==
    << Line(0, 2, "US", "LA",       Some(4), Some(0)),
       Line(3, 3, "MX", "LA",       Null,    Some(3)) >>

Snapshots == {SnapAscending, SnapChanged, SnapUnsorted, SnapNullCoord}

Variants == {"CountryLevel_GeoDB", "ZIPLevel_GeoDB", "ZIP_GeoIPDB"}

------------------------------------------------------------------------------
(* Schemas *)

\* the class attribute `names` (the columns this model keeps)
names(v) ==
    CASE v = "CountryLevel_GeoDB" ->
            {"latitude", "longitude", "country_code", "country_name"}
      [] v = "ZIPLevel_GeoDB" ->
            {"country_code", "place_name", "latitude", "longitude"}
      [] v = "ZIP_GeoIPDB" ->
            {"ip_from", "ip_to", "country_code", "place_name",
             "latitude", "longitude"}

\* the class attribute `types`: the columns typed int or float
numeric(k) == k \in {"ip_from", "ip_to", "latitude", "longitude"}

\* the cell of csv line ln under column k of the variant's schema
csv_cell(ln, k) == IF k = "country_name" THEN ln.place_name
                   ELSE IF k \in {"ip_from", "ip_to"} THEN Some(ln[k])
                   ELSE ln[k]

\* df.to_sql(name, conn, if_exists='replace'): the frame's rows with the
\* frame's index as column "index"; the FTS5 table of ZIPLevel_GeoDB has
\* no such column
to_sql(v, snapshot) ==
    [i \in 1..Len(snapshot) |->
        [k \in names(v) \cup (IF v = "ZIPLevel_GeoDB" THEN {} ELSE {"index"}) |->
            IF k = "index" THEN Some(i - 1) ELSE csv_cell(snapshot[i], k)]]

\* df['ip_to'].values
ip_to_values(snapshot) == [i \in 1..Len(snapshot) |-> snapshot[i].ip_to]

------------------------------------------------------------------------------
(* The row factory *)

\* GeoDatabase_Base._dict_factory: "index" is skipped, a numeric cell that
\* int()/float() rejects (None) leaves no key
_dict_factory(row) ==
    [k \in {c \in DOMAIN row : c # "index" /\ (numeric(c) => row[c] # Null)} |->
        IF numeric(k) THEN row[k][1] ELSE row[k]]

DictsOf(rows) == [i \in 1..Len(rows) |-> _dict_factory(rows[i])]

------------------------------------------------------------------------------
(* The storage engine: the queries the resolvers send to sqlite *)

\* '{}'.format(x) for a Python value
RECURSIVE join_repr(_)
join_repr(l) == IF l = <<>> THEN ""
                ELSE IF Len(l) = 1 THEN "'" \o l[1] \o "'"
                ELSE "'" \o l[1] \o "', " \o join_repr(Tail(l))

format(x) ==
    CASE x.t = "str"   -> x.s
      [] x.t = "int"   -> ToString(x.n)
      [] x.t = "bool"  -> IF x.n = 1 THEN "True" ELSE "False"
      [] x.t = "list"  -> "[" \o join_repr(x.l) \o "]"
      [] x.t = "tuple" -> "(" \o join_repr(x.l) \o (IF Len(x.l) = 1 THEN "," ELSE "") \o ")"

\* an SQL value: <<>> is NULL, <<text>> a value (a numeric cell compares by
\* its number, which column affinity gives a quoted number too)
cell(row, col) == IF numeric(col) \/ col = "index"
                  THEN (IF row[col] = Null THEN <<>> ELSE <<ToString(row[col][1])>>)
                  ELSE <<row[col]>>

\* a double-quoted token "x": the column x if the table has one, else the
\* string literal 'x'
quoted(columns, row, x) == IF x \in columns THEN cell(row, x) ELSE <<x>>

sql_eq(a, b) == a # <<>> /\ b # <<>> /\ a = b

\* what cursor.execute leaves: the selected rows, or the error it raises
Selected(rows) == [kind |-> "rows", rows |-> rows, ret |-> RetNone]
Failed(e)      == [kind |-> "ret", rows |-> <<>>, ret |-> Raised(e)]
Returns(r)     == [kind |-> "ret", rows |-> <<>>, ret |-> r]
NoExecute      == [kind |-> "noexec", rows |-> <<>>, ret |-> RetNone]

\* SELECT * FROM name WHERE column = "value"
select_eq(columns, tbl, column, value) ==
    IF column \notin columns
    THEN Failed("OperationalError")
    ELSE Selected(SelectSeq(tbl,
            LAMBDA r : sql_eq(cell(r, column), quoted(columns, r, format(value)))))

\* SELECT * FROM name WHERE "c1" = "v1" <op> "c2" = "v2" ...
select_multi(columns, tbl, column, value, multi_op) ==
    IF Len(column) = 0 \/ format(multi_op) \notin {"AND", "OR"}
    THEN Failed("OperationalError")
    ELSE Selected(SelectSeq(tbl,
            LAMBDA r :
              IF format(multi_op) = "AND"
              THEN \A i \in 1..Len(column) :
                      sql_eq(quoted(columns, r, column[i]), quoted(columns, r, value[i]))
              ELSE \E i \in 1..Len(column) :
                      sql_eq(quoted(columns, r, column[i]), quoted(columns, r, value[i]))))

\* str.lower() on the strings of this model
lower(x) ==
    CASE x = "US" -> "us" [] x = "MX" -> "mx" [] x = "ZZ" -> "zz"
      [] x = "LA" -> "la" [] x = "BOSTON" -> "boston"
      [] x = "NEW YORK" -> "new york" [] x = "YORK" -> "york"
      [] OTHER -> x

\* the tokens the FTS5 tokenizer makes of a text
tokens(x) ==
    IF lower(x) = "new york" THEN {"new", "york"} ELSE {lower(x)}

\* the text columns of the FTS5 table a token is looked up in
fts_columns == {"country_code", "place_name"}

\* one FTS5 term col:val (val a single token): the column holds the token
fts_term(r, col, val) == lower(val) \in tokens(r[lower(col)])

\* SELECT * FROM name WHERE name MATCH "column:value"
match_column(tbl, column, value) ==
    IF lower(column) \notin fts_columns
    THEN Failed("OperationalError")
    ELSE Selected(SelectSeq(tbl, LAMBDA r : fts_term(r, column, value)))

\* SELECT * FROM name WHERE name MATCH "value"
match_any(tbl, value) ==
    Selected(SelectSeq(tbl, LAMBDA r : \E c \in fts_columns : fts_term(r, c, value)))

\* SELECT * FROM name WHERE name MATCH "c1:v1 <op> c2:v2 ..."
match_multi(tbl, column, value, multi_op) ==
    IF Len(column) = 0 \/ format(multi_op) \notin {"AND", "OR"}
       \/ \E i \in 1..Len(column) : lower(column[i]) \notin fts_columns
    THEN Failed("OperationalError")
    ELSE Selected(SelectSeq(tbl,
            LAMBDA r :
              IF format(multi_op) = "AND"
              THEN \A i \in 1..Len(column) : fts_term(r, column[i], value[i])
              ELSE \E i \in 1..Len(column) : fts_term(r, column[i], value[i])))

------------------------------------------------------------------------------
(* Library functions *)

\* bisect.bisect_right(a, x): a is indexed from 1 here, the result is the
\* 0-based insertion point
RECURSIVE bisect_loop(_, _, _, _)
bisect_loop(a, x, lo, hi) ==
    IF lo < hi
    THEN LET mid == (lo + hi) \div 2
         IN  IF x < a[mid + 1] THEN bisect_loop(a, x, lo, mid)
                               ELSE bisect_loop(a, x, mid + 1, hi)
    ELSE lo

bisect_right(a, x) == bisect_loop(a, x, 0, Len(a))

\* the dotted form of the addresses 0.0.0.n
dotted(n) == "0.0.0." \o ToString(n)

\* net_utils.ip2int: the 32-bit integer of a dotted address; <<>> when the
\* text is no address (the call raises)
ip2int(x) ==
    IF \E n \in 0..255 : x = dotted(n)
    THEN <<CHOOSE n \in 0..255 : x = dotted(n)>>
    ELSE <<>>

RECURSIVE sum_coord(_, _)
sum_coord(points, j) ==
    IF points = <<>> THEN 0 ELSE Head(points)[j] + sum_coord(Tail(points), j)

\* n^2 times the squared distance of point p to the centroid of the points
dist2(points, p) ==
    LET n  == Len(points)
        dx == n * p[1] - sum_coord(points, 1)
        dy == n * p[2] - sum_coord(points, 2)
    IN  dx * dx + dy * dy

\* MultiPoint(points).representative_point(): for a point set GEOS returns
\* the input point nearest the centroid, the first such point in input order
representative_point(points) ==
    LET best == CHOOSE i \in 1..Len(points) :
                  /\ \A j \in 1..Len(points) : dist2(points, points[i]) <= dist2(points, points[j])
                  /\ \A j \in 1..(i - 1) : dist2(points, points[j]) > dist2(points, points[i])
    IN  points[best]

\* '{},{}'.format(lat, lon) of two floats
format_latlon(lat, lon) == ToString(lat) \o ".0," \o ToString(lon) \o ".0"

------------------------------------------------------------------------------
(* Record shaping: the tail shared by the three _get_geodata methods *)

without(d, keys) == [k \in DOMAIN d \ keys |-> d[k]]
with(d, k, x) == [j \in DOMAIN d \cup {k} |-> IF j = k THEN x ELSE d[j]]

has_coords(d) == "latitude" \in DOMAIN d /\ "longitude" \in DOMAIN d

\* d['location'] of the first row
location_of(results) == format_latlon(results[1].latitude, results[1].longitude)

\* the aggregation forgotten: the first row's point whatever the row count
representative_of_first(results) == location_of(results)

\* d['representative_point']
representative_of(results) ==
    IF Len(results) > 1
    THEN LET p == representative_point(
                    [i \in 1..Len(results) |-> <<results[i].latitude, results[i].longitude>>])
         IN  format_latlon(p[1], p[2])
    ELSE location_of(results)

\* only the coordinates are deleted
deleted_keys_coordinates_only(v) == {"latitude", "longitude"}

\* the keys each class deletes from the first row
deleted_keys(v) ==
    IF v = "ZIP_GeoIPDB" THEN {"latitude", "longitude", "ip_from", "ip_to", "index"}
    ELSE IF v = "CountryLevel_GeoDB" THEN {"latitude", "longitude", "index"}
    ELSE {"latitude", "longitude"}

\* from `results = self.cursor.fetchall()` to `return d`; a missing
\* 'latitude' or 'longitude' key raises KeyError
shape(v, results) ==
    IF Len(results) = 0 THEN RetNone
    ELSE IF ~has_coords(results[1]) THEN Raised("KeyError")
    ELSE IF Len(results) > 1 /\ \E i \in 1..Len(results) : ~has_coords(results[i])
         THEN Raised("KeyError")
    ELSE LET d0 == with(with(results[1], "location", location_of(results)),
                        "representative_point", representative_of(results))
             d1 == without(d0, deleted_keys(v))
         IN  RetDict(IF v = "ZIPLevel_GeoDB" THEN with(d1, "country_name", "None") ELSE d1)

------------------------------------------------------------------------------
(* Calls: get_geodata with args and kwargs *)

Call(args, kwargs) == [args |-> args, kwargs |-> kwargs]
Kw(name, val) == [name |-> name, val |-> val]

\* the parameters of _get_geodata after self
params(v) == IF v = "ZIP_GeoIPDB" THEN <<"column", "value", "multi_op", "str_ip">>
             ELSE <<"column", "value", "multi_op">>

bound_names(v, c) ==
    {params(v)[i] : i \in 1..Len(c.args)} \cup {c.kwargs[i].name : i \in 1..Len(c.kwargs)}

\* self._get_geodata with args and kwargs binds its parameters; Python raises
\* TypeError otherwise
binds(v, c) ==
    /\ Len(c.args) <= Len(params(v))
    /\ \A i \in 1..Len(c.kwargs) :
          \E j \in (Len(c.args) + 1)..Len(params(v)) : params(v)[j] = c.kwargs[i].name
    /\ {"column", "value"} \subseteq bound_names(v, c)

\* the value parameter `name` is bound to, or its default
param(v, c, name, default) ==
    IF \E i \in 1..Len(c.args) : params(v)[i] = name
    THEN c.args[CHOOSE i \in 1..Len(c.args) : params(v)[i] = name]
    ELSE IF \E i \in 1..Len(c.kwargs) : c.kwargs[i].name = name
    THEN c.kwargs[CHOOSE i \in 1..Len(c.kwargs) : c.kwargs[i].name = name].val
    ELSE default

column_of(v, c)   == param(v, c, "column", PyStr(""))
value_of(v, c)    == param(v, c, "value", PyStr(""))
multi_op_of(v, c) == param(v, c, "multi_op", PyStr("AND"))
str_ip_of(v, c)   == param(v, c, "str_ip", PyBool(TRUE))

\* bool(x)
truthy(x) ==
    CASE x.t \in {"int", "bool"} -> x.n # 0
      [] x.t = "str" -> x.s # ""
      [] OTHER -> Len(x.l) > 0

\* an element of the key: a positional list becomes a tuple; True and 1,
\* False and 0 are the same dict key
as_key(x) == IF x.t = "bool" THEN PyInt(x.n) ELSE x

keyarg(x) == as_key(IF x.t = "list" THEN PyTuple(x.l) ELSE x)

\* keyargs + tuple(kwargs.values()): the keyword values in call order,
\* without their names and without the list-to-tuple conversion
key_of(c) ==
    [i \in 1..Len(c.args) |-> keyarg(c.args[i])]
      \o [i \in 1..Len(c.kwargs) |-> as_key(c.kwargs[i].val)]

\* a tuple holding a list cannot be hashed: dict.get raises TypeError
hashable(key) == \A i \in 1..Len(key) : key[i].t # "list"

------------------------------------------------------------------------------
(* The three _get_geodata methods, up to cursor.execute *)

columns_of(v) == names(v) \cup (IF v = "ZIPLevel_GeoDB" THEN {} ELSE {"index"})

is_list_pair(column, value) ==
    column.t = "list" /\ value.t = "list" /\ Len(column.l) = Len(value.l)

\* CountryLevel_GeoDB._get_geodata: no branch for other shapes, the
\* method goes on to fetchall without a query of its own
country_execute(tbl, column, value, multi_op) ==
    IF column.t = "str"
    THEN select_eq(columns_of("CountryLevel_GeoDB"), tbl, column.s, value)
    ELSE IF is_list_pair(column, value)
    THEN select_multi(columns_of("CountryLevel_GeoDB"), tbl, column.l, value.l, multi_op)
    ELSE NoExecute

\* ZIPLevel_GeoDB._get_geodata
zip_execute(tbl, column, value, multi_op) ==
    IF value.t = "str" /\ column.t = "str" /\ column.s \in names("ZIPLevel_GeoDB")
    THEN match_column(tbl, column.s, value.s)
    ELSE IF value.t = "str" /\ column.t = "str"
    THEN match_any(tbl, value.s)
    ELSE IF is_list_pair(column, value)
    THEN match_multi(tbl, column.l, value.l, multi_op)
    ELSE Returns(RetNone)

\* the 'ip' branch of ZIP_GeoIPDB._get_geodata: the searched integer, the
\* bisection and the unchecked read of ip_int_to_list[idx]
ip_execute(tbl, index, value, str_ip) ==
    LET conv == IF truthy(str_ip) THEN ip2int(format(value))
                ELSE IF value.t = "int" THEN <<value.n>> ELSE <<>>
    IN  IF conv = <<>>
        THEN (IF truthy(str_ip) THEN Returns(RetNone) ELSE Failed("TypeError"))
        ELSE LET idx == bisect_right(index, conv[1])
             IN  IF idx >= Len(index)
                 THEN Failed("IndexError")
                 ELSE select_eq(columns_of("ZIP_GeoIPDB"), tbl, "ip_to",
                                PyInt(index[idx + 1]))

\* ZIP_GeoIPDB._get_geodata
geoip_execute(tbl, index, column, value, multi_op, str_ip) ==
    IF column = PyStr("ip")
    THEN ip_execute(tbl, index, value, str_ip)
    ELSE IF column.t = "str"
    THEN select_eq(columns_of("ZIP_GeoIPDB"), tbl, column.s, value)
    ELSE IF is_list_pair(column, value)
    THEN select_multi(columns_of("ZIP_GeoIPDB"), tbl, column.l, value.l, multi_op)
    ELSE Returns(RetNone)

\* self._get_geodata with args and kwargs up to and including cursor.execute
execute(v, tbl, index, c) ==
    IF ~binds(v, c) THEN Failed("TypeError")
    ELSE CASE v = "CountryLevel_GeoDB" ->
                country_execute(tbl, column_of(v, c), value_of(v, c), multi_op_of(v, c))
           [] v = "ZIPLevel_GeoDB" ->
                zip_execute(tbl, column_of(v, c), value_of(v, c), multi_op_of(v, c))
           [] v = "ZIP_GeoIPDB" ->
                geoip_execute(tbl, index, column_of(v, c), value_of(v, c),
                              multi_op_of(v, c), str_ip_of(v, c))

\* the rows fetchall returns: those of the query just executed, or
\* whatever the cursor still holds when the method executed none
fetchall(plan, pending) == IF plan.kind = "rows" THEN plan.rows ELSE pending

\* _get_geodata as one call on a cursor holding `pending`
_get_geodata(v, tbl, index, pending, c) ==
    LET plan == execute(v, tbl, index, c)
    IN  IF plan.kind = "ret" THEN plan.ret
        ELSE shape(v, DictsOf(fetchall(plan, pending)))

------------------------------------------------------------------------------
(* The result cache *)

EmptyDict == [k \in {} |-> RetNone]

\* self._results_cache.get(key, False)
_get_result_from_cache(cache, key) ==
    IF key \in DOMAIN cache THEN cache[key] ELSE RetFalse

\* the assignment lost: nothing is stored
_add_result_to_cache_lost(cache, key, d) == cache

\* the entry filed under the empty key
_add_result_to_cache_misfiled(cache, key, d) ==
    [k \in DOMAIN cache \cup {<<>>} |-> IF k = <<>> THEN d ELSE cache[k]]

\* the other entries dropped when one is stored
_add_result_to_cache_fresh(cache, key, d) == [k \in {key} |-> d]

\* self._results_cache[key] = d
_add_result_to_cache(cache, key, d) ==
    [k \in DOMAIN cache \cup {key} |-> IF k = key THEN d ELSE cache[k]]

\* the `if val is None: return None` lines left out: None is stored too
store_result_with_none(cache, key, val) ==
    IF val.kind \in {"dict", "None"} THEN _add_result_to_cache(cache, key, val) ELSE cache

\* what get_geodata does with the value _get_geodata returned: None is
\* returned without being stored
store_result(cache, key, val) ==
    IF val.kind = "dict" THEN _add_result_to_cache(cache, key, val) ELSE cache

------------------------------------------------------------------------------
(* The calls the callers make *)

Positional(column, value) == Call(<<column, value>>, <<>>)

IpCalls ==
    {Call(<<PyStr("ip"), PyInt(n)>>, <<Kw("str_ip", PyBool(FALSE))>>) : n \in 0..MaxQueryIp}
      \cup {Positional(PyStr("ip"), PyStr(dotted(2)))}

ColumnCalls ==
    { Positional(PyStr("country_code"), PyStr("US")),
      Positional(PyStr("country_code"), PyStr("MX")),
      Positional(PyStr("country_code"), PyStr("ZZ")),
      Positional(PyStr("place_name"), PyStr("YORK")),
      Positional(PyList(<<"country_code">>), PyList(<<"US">>)),
      Positional(PyTuple(<<"country_code">>), PyTuple(<<"US">>)),
      Positional(PyList(<<"country_code", "place_name">>), PyList(<<"US", "LA">>)),
      Positional(PyList(<<"country_code", "place_name">>), PyList(<<"US">>)),
      Call(<<PyList(<<"country_code", "place_name">>), PyList(<<"MX", "BOSTON">>), PyStr("OR")>>, <<>>),
      Call(<<PyList(<<"country_code", "place_name">>), PyList(<<"MX", "BOSTON">>)>>,
           <<Kw("multi_op", PyStr("OR"))>>),
      Call(<<>>, <<Kw("column", PyStr("country_code")), Kw("value", PyStr("US"))>>),
      Call(<<>>, <<Kw("value", PyStr("country_code")), Kw("column", PyStr("US"))>>),
      Call(<<>>, <<Kw("column", PyList(<<"country_code">>)), Kw("value", PyList(<<"US">>))>>),
      Call(<<PyList(<<"country_code", "place_name">>)>>, <<Kw("value", PyList(<<"US">>))>>),
      Positional(PyStr("place_name"), PyStr("LA")) }

Calls == IpCalls \cup ColumnCalls

NoCall == Call(<<>>, <<>>)

------------------------------------------------------------------------------
(* get_geodata as one call *)

Outcome(ret, hit, queried, cache, pending) ==
    [ret |-> ret, hit |-> hit, queried |-> queried, cache |-> cache, cursor |-> pending]

\* GeoDatabase_Base.get_geodata on a resolver whose cursor holds `pending`
get_geodata(v, tbl, index, cache, pending, c) ==
    LET key == key_of(c) IN
    IF ~hashable(key) THEN Outcome(Raised("TypeError"), FALSE, FALSE, cache, pending)
    ELSE LET val == _get_result_from_cache(cache, key) IN
         IF val # RetFalse THEN Outcome(val, TRUE, FALSE, cache, pending)
         ELSE LET plan == execute(v, tbl, index, c)
                  ret  == _get_geodata(v, tbl, index, pending, c)
              IN  Outcome(ret, FALSE, plan.kind = "rows",
                          store_result(cache, key, ret),
                          IF plan.kind = "ret" THEN pending ELSE <<>>)

------------------------------------------------------------------------------
(* Construction *)

Absent == <<>>
File(content) == <<content>>

\* GeoDatabase_Base._load_database and ZIPLevel_GeoDB._load_database: the
\* table the connection reads, rebuilt from the snapshot when asked to or
\* when there is no file at db_path
_load_database(v, file, snapshot, update) ==
    IF update \/ file = Absent THEN to_sql(v, snapshot) ELSE file[1]

\* ZIP_GeoIPDB._load_cache_ip_file: the side file when it exists, else the
\* ip_to column of the snapshot
_load_cache_ip_file(file, snapshot) ==
    IF file # Absent THEN file[1] ELSE ip_to_values(snapshot)

\* ZIPLevel_GeoDB.check_FTS5_support on the rows of pragma compile_options
check_FTS5_support_skipped(pragmas) == TRUE

check_FTS5_support(pragmas) == "ENABLE_FTS5" \in pragmas

\* the compile options of the sqlite3 library in use
CompileOptions == {{"ENABLE_FTS5", "THREADSAFE=1"}, {"THREADSAFE=1"}}

\* no import is running
NoImport ==
    /\ input = <<>>
    /\ skip_first_line = FALSE
    /\ lineno = 0
    /\ ctr = 0
    /\ documents = <<>>

NoLast == [valid |-> FALSE, call |-> NoCall, ret |-> RetNone, hit |-> FALSE,
           queried |-> FALSE, prev |-> RetFalse, stored |-> FALSE,
           again |-> FALSE, peer |-> FALSE]

Threads == {1, 2}

Idle == /\ pc = [t \in Threads |-> "idle"]

\* ZIP_GeoIPDB(...), CountryLevel_GeoDB(...) or ZIPLevel_GeoDB(...), with
\* original_db_path = snapshot and the flag update; ZIPLevel_GeoDB checks
\* the FTS5 support of the library first
Construct(snapshot, update, pragmas) ==
    /\ Idle
    /\ variant = "ZIPLevel_GeoDB" => check_FTS5_support(pragmas)
    /\ available_pragmas' = (IF variant = "ZIPLevel_GeoDB" THEN pragmas
                             ELSE available_pragmas)
    /\ table' = _load_database(variant, db_file, snapshot, update)
    /\ db_file' = File(table')
    /\ did_load' = (update \/ db_file = Absent)
    /\ IF variant = "ZIP_GeoIPDB"
       THEN /\ ip_int_to_list' = _load_cache_ip_file(npy_file, snapshot)
            /\ npy_file' = File(ip_int_to_list')
       ELSE /\ ip_int_to_list' = <<>>
            /\ npy_file' = npy_file
    /\ alive' = TRUE
    /\ results_cache' = EmptyDict
    /\ cursor' = <<>>
    /\ ncalls' = 0
    /\ last' = NoLast
    /\ first_ret' = EmptyDict
    /\ UNCHANGED <<variant, pc, tcall, tres>>
    /\ UNCHANGED gen_vars

\* ZIPLevel_GeoDB(...) on a library without FTS5: the error is logged and
\* sys.exit(1) ends the process before GeoDatabase_Base.__init__ is called
ConstructHalts(pragmas) ==
    /\ Idle
    /\ variant = "ZIPLevel_GeoDB" /\ ~check_FTS5_support(pragmas)
    /\ available_pragmas' = pragmas
    /\ alive' = FALSE
    /\ did_load' = FALSE
    /\ table' = <<>>
    /\ ip_int_to_list' = <<>>
    /\ results_cache' = EmptyDict
    /\ cursor' = <<>>
    /\ ncalls' = 0
    /\ last' = NoLast
    /\ first_ret' = EmptyDict
    /\ UNCHANGED <<variant, db_file, npy_file, pc, tcall, tres>>
    /\ UNCHANGED gen_vars

\* the same query in the other calling convention: a field and a value
\* for one-element lists, one-element lists for a field and a value
sibling(c) ==
    IF Len(c.args) < 2 \/ c.args[1] = PyStr("ip") THEN NoCall
    ELSE IF c.args[1].t = "str" /\ c.args[2].t = "str"
    THEN [c EXCEPT !.args[1] = PyList(<<c.args[1].s>>),
                   !.args[2] = PyList(<<c.args[2].s>>)]
    ELSE IF c.args[1].t = "list" /\ c.args[2].t = "list"
            /\ Len(c.args[1].l) = 1 /\ Len(c.args[2].l) = 1
    THEN [c EXCEPT !.args[1] = PyStr(c.args[1].l[1]),
                   !.args[2] = PyStr(c.args[2].l[1])]
    ELSE NoCall

\* the record of a completed call: what it returned, whether the cache
\* answered it (hit), whether it ran a query (queried), whether it stored
\* an entry (stored); prev is the first record this call returned before
\* on this resolver, again says the call before it was the same call and
\* returned None from a query without rows, peer says the cache held an
\* entry under the key of the sibling call when this call began
Completed(c, ret, hit, queried, stored) ==
    [valid |-> TRUE, call |-> c, ret |-> ret, hit |-> hit, queried |-> queried,
     prev |-> IF c \in DOMAIN first_ret THEN first_ret[c] ELSE RetFalse,
     stored |-> stored,
     again |-> (last.valid /\ last.call = c /\ last.queried /\ ~last.hit
                /\ last.ret.kind = "None"),
     peer |-> (sibling(c) # NoCall /\ key_of(sibling(c)) \in DOMAIN results_cache)]

Remember(c, ret) ==
    IF ret.kind = "dict" /\ c \notin DOMAIN first_ret
    THEN [k \in DOMAIN first_ret \cup {c} |-> IF k = c THEN ret ELSE first_ret[k]]
    ELSE first_ret

\* one caller, one call from entry to return
GetGeodata(c) ==
    /\ alive /\ Idle /\ ncalls < MaxCalls
    /\ LET o == get_geodata(variant, table, ip_int_to_list, results_cache, cursor, c)
       IN  /\ results_cache' = o.cache
           /\ cursor' = o.cursor
           /\ last' = Completed(c, o.ret, o.hit, o.queried, o.cache # results_cache)
           /\ first_ret' = Remember(c, o.ret)
    /\ ncalls' = ncalls + 1
    /\ UNCHANGED <<variant, db_file, npy_file, alive, did_load, table,
                   ip_int_to_list, pc, tcall, tres>>
    /\ UNCHANGED <<available_pragmas, gen_vars>>

Init ==
    /\ variant \in Variants
    /\ db_file = Absent
    /\ npy_file = Absent
    /\ alive = FALSE
    /\ did_load = FALSE
    /\ table = <<>>
    /\ ip_int_to_list = <<>>
    /\ results_cache = EmptyDict
    /\ cursor = <<>>
    /\ ncalls = 0
    /\ last = NoLast
    /\ first_ret = EmptyDict
    /\ pc = [t \in Threads |-> "idle"]
    /\ tcall = [t \in Threads |-> NoCall]
    /\ tres = [t \in Threads |-> <<>>]
    /\ available_pragmas = {}
    /\ NoImport

Next ==
    \/ \E snapshot \in Snapshots, update \in BOOLEAN, pragmas \in CompileOptions :
          Construct(snapshot, update, pragmas)
    \/ \E pragmas \in CompileOptions : ConstructHalts(pragmas)
    \/ \E c \in Calls : GetGeodata(c)

Spec == Init /\ [][Next]_vars

------------------------------------------------------------------------------
(* Two callers on one resolver: get_geodata in the steps at which it reads
   or writes what the callers share (the cache, the cursor) *)

Finish(t, c, ret, hit, queried, cache) ==
    /\ results_cache' = cache
    /\ last' = Completed(c, ret, hit, queried, cache # results_cache)
    /\ first_ret' = Remember(c, ret)
    /\ pc' = [pc EXCEPT ![t] = "idle"]
    /\ tcall' = [tcall EXCEPT ![t] = NoCall]
    /\ tres' = [tres EXCEPT ![t] = <<>>]

\* key = ...; val = self._get_result_from_cache(key); a hit returns
Enter(t, c) ==
    /\ alive /\ pc[t] = "idle" /\ ncalls < MaxCalls
    /\ ncalls' = ncalls + 1
    /\ IF ~hashable(key_of(c))
       THEN Finish(t, c, Raised("TypeError"), FALSE, FALSE, results_cache)
       ELSE IF _get_result_from_cache(results_cache, key_of(c)) # RetFalse
       THEN Finish(t, c, _get_result_from_cache(results_cache, key_of(c)),
                   TRUE, FALSE, results_cache)
       ELSE /\ pc' = [pc EXCEPT ![t] = "missed"]
            /\ tcall' = [tcall EXCEPT ![t] = c]
            /\ UNCHANGED <<results_cache, last, first_ret, tres>>
    /\ UNCHANGED <<variant, db_file, npy_file, alive, did_load, table,
                   ip_int_to_list, cursor>>
    /\ UNCHANGED <<available_pragmas, gen_vars>>

\* _get_geodata up to self.cursor.execute(query) on the shared cursor
Execute(t) ==
    /\ pc[t] = "missed"
    /\ LET plan == execute(variant, table, ip_int_to_list, tcall[t])
       IN  IF plan.kind = "ret"
           THEN /\ Finish(t, tcall[t], plan.ret, FALSE, FALSE,
                          store_result(results_cache, key_of(tcall[t]), plan.ret))
                /\ cursor' = cursor
           ELSE /\ cursor' = (IF plan.kind = "rows" THEN plan.rows ELSE cursor)
                /\ pc' = [pc EXCEPT ![t] = "executed"]
                /\ UNCHANGED <<results_cache, last, first_ret, tcall, tres>>
    /\ UNCHANGED <<variant, db_file, npy_file, alive, did_load, table,
                   ip_int_to_list, ncalls>>
    /\ UNCHANGED <<available_pragmas, gen_vars>>

\* results = self.cursor.fetchall(): whatever the shared cursor holds
Fetchall(t) ==
    /\ pc[t] = "executed"
    /\ tres' = [tres EXCEPT ![t] = cursor]
    /\ cursor' = <<>>
    /\ pc' = [pc EXCEPT ![t] = "fetched"]
    /\ UNCHANGED <<variant, db_file, npy_file, alive, did_load, table,
                   ip_int_to_list, results_cache, ncalls, last, first_ret, tcall>>
    /\ UNCHANGED <<available_pragmas, gen_vars>>

\* the record is built, stored under the caller's key and returned
Return(t) ==
    /\ pc[t] = "fetched"
    /\ LET ret == shape(variant, DictsOf(tres[t]))
       IN  Finish(t, tcall[t], ret, FALSE,
                  execute(variant, table, ip_int_to_list, tcall[t]).kind = "rows",
                  store_result(results_cache, key_of(tcall[t]), ret))
    /\ UNCHANGED <<variant, db_file, npy_file, alive, did_load, table,
                   ip_int_to_list, cursor, ncalls>>
    /\ UNCHANGED <<available_pragmas, gen_vars>>

\* a resolver just constructed over an empty file system
InitConc ==
    /\ variant \in Variants
    /\ \E snapshot \in Snapshots :
          /\ table = _load_database(variant, Absent, snapshot, FALSE)
          /\ ip_int_to_list = (IF variant = "ZIP_GeoIPDB"
                               THEN _load_cache_ip_file(Absent, snapshot) ELSE <<>>)
    /\ db_file = File(table)
    /\ npy_file = (IF variant = "ZIP_GeoIPDB" THEN File(ip_int_to_list) ELSE Absent)
    /\ alive = TRUE
    /\ did_load = TRUE
    /\ results_cache = EmptyDict
    /\ cursor = <<>>
    /\ ncalls = 0
    /\ last = NoLast
    /\ first_ret = EmptyDict
    /\ pc = [t \in Threads |-> "idle"]
    /\ tcall = [t \in Threads |-> NoCall]
    /\ tres = [t \in Threads |-> <<>>]
    /\ available_pragmas = (IF variant = "ZIPLevel_GeoDB"
                            THEN {"ENABLE_FTS5", "THREADSAFE=1"} ELSE {})
    /\ NoImport

NextConc ==
    \/ \E t \in Threads, c \in Calls : Enter(t, c)
    \/ \E t \in Threads : Execute(t)
    \/ \E t \in Threads : Fetchall(t)
    \/ \E t \in Threads : Return(t)

SpecConc == InitConc /\ [][NextConc]_vars

------------------------------------------------------------------------------
(* input_generator of elasticImporter.py: the loop over the lines of the
   input, one line per step; args.md5_id is not set *)

\* an input has at most MaxLines lines
MaxLines == 3

PyNone == [t |-> "NoneType", s |-> "", n |-> 0, l |-> <<>>]

\* cfg['order_in_file'] and cfg['properties']
fields == <<"name", "count">>
properties == [name |-> "keyword", count |-> "integer"]

numeric_properties == {"integer", "long", "date", "float"}

\* float(str_value) of the texts the lines carry; <<>> is ValueError
float(str_value) ==
    IF str_value = "7" THEN <<7>> ELSE IF str_value = "12" THEN <<12>> ELSE <<>>

\* parse_property: an empty or unparsable number is None
parse_property(str_value, t) ==
    IF t \in numeric_properties
    THEN (IF str_value = "" \/ float(str_value) = <<>> THEN PyNone
          ELSE PyInt(float(str_value)[1]))
    ELSE PyStr(str_value)

\* the lines of the inputs: line.rstrip().split(args.separator)
Lines ==
    { <<"n1", "7">>, <<"n2", "x">>, <<"n3", "12", "extra">> }

Inputs == UNION {[1..n -> Lines] : n \in 0..MaxLines}

\* the dict comprehension reads fields[i] for every value: a line with more
\* values than fields raises IndexError, which the loop logs and ignores
parses(sline) == Len(sline) <= Len(fields)

\* the document built from a line that parses
document(sline) ==
    [_source |-> [k \in {fields[i] : i \in 1..Len(sline)} |->
                    LET i == CHOOSE j \in 1..Len(sline) : fields[j] = k
                    IN  parse_property(sline[i], properties[k])],
     _index |-> "index", _type |-> "doc_type"]

\* one iteration of `for line in f`
NextLine ==
    /\ lineno < Len(input)
    /\ lineno' = lineno + 1
    /\ LET sline == input[lineno + 1]
       IN  IF ctr = 0 /\ skip_first_line
           THEN UNCHANGED <<ctr, documents>>
           ELSE /\ ctr' = ctr + 1
                /\ documents' = (IF parses(sline)
                                 THEN Append(documents, document(sline))
                                 ELSE documents)
    /\ UNCHANGED <<input, skip_first_line>>
    /\ UNCHANGED geo_vars

\* input_generator is called on an input, with or without --skip_first_line
InitGen ==
    /\ input \in Inputs
    /\ skip_first_line \in BOOLEAN
    /\ lineno = 0
    /\ ctr = 0
    /\ documents = <<>>
    /\ variant = "CountryLevel_GeoDB"
    /\ db_file = Absent
    /\ npy_file = Absent
    /\ alive = FALSE
    /\ did_load = FALSE
    /\ table = <<>>
    /\ ip_int_to_list = <<>>
    /\ results_cache = EmptyDict
    /\ cursor = <<>>
    /\ ncalls = 0
    /\ last = NoLast
    /\ first_ret = EmptyDict
    /\ pc = [t \in Threads |-> "idle"]
    /\ tcall = [t \in Threads |-> NoCall]
    /\ tres = [t \in Threads |-> <<>>]
    /\ available_pragmas = {}

NextGen == NextLine

SpecGen == InitGen /\ [][NextGen]_vars

------------------------------------------------------------------------------
(* Properties *)

GeoIP == "ZIP_GeoIPDB"

\* what _get_geodata returns for the arguments of the last call
Direct(c) == _get_geodata(variant, table, ip_int_to_list, <<>>, c)

\* C1: a call answered from the result cache returns what _get_geodata
\* returns for that call's own arguments, positional or keyword
C1_CacheTransparency ==
    (last.valid /\ last.hit) => last.ret = Direct(last.call)

IsAscending(a) == \A i \in 1..(Len(a) - 1) : a[i] <= a[i + 1]

\* the 'ip' lookups by integer: the value looked up, <<>> for other calls
ip_value(c) ==
    IF variant = GeoIP /\ binds(GeoIP, c) /\ column_of(GeoIP, c) = PyStr("ip")
    THEN (IF truthy(str_ip_of(GeoIP, c)) THEN ip2int(format(value_of(GeoIP, c)))
          ELSE IF value_of(GeoIP, c).t = "int" THEN <<value_of(GeoIP, c).n>> ELSE <<>>)
    ELSE <<>>

\* the rows whose range ip_from..ip_to contains x, found by a scan
linear_scan(tbl, x) ==
    SelectSeq(tbl, LAMBDA r : r.ip_from[1] <= x /\ x <= r.ip_to[1])

\* the index is the ip_to column of the table, position by position
Aligned ==
    /\ Len(ip_int_to_list) = Len(table)
    /\ \A i \in 1..Len(table) : table[i].ip_to = Some(ip_int_to_list[i])

\* C2: over an ascending range table the 'ip' lookup of a value some range
\* contains returns the record a linear scan finds, also when the value is
\* a range's upper bound
C2_LookupMatchesLinearScan ==
    (/\ last.valid /\ ip_value(last.call) # <<>>
     /\ Aligned /\ IsAscending(ip_int_to_list)
     /\ linear_scan(table, ip_value(last.call)[1]) # <<>>)
    => last.ret = shape(GeoIP, DictsOf(linear_scan(table, ip_value(last.call)[1])))

\* C3: an 'ip' lookup of a value above every range upper bound returns None
C3_AboveEveryBoundIsNone ==
    (/\ last.valid /\ ~last.hit /\ ip_value(last.call) # <<>>
     /\ \A i \in 1..Len(ip_int_to_list) : ip_value(last.call)[1] > ip_int_to_list[i])
    => last.ret = RetNone

\* C4: once a call has returned a record, every later call with the same
\* arguments on the same resolver returns that record and runs no query
C4_RepeatedCallServedFromCache ==
    (last.valid /\ last.prev.kind = "dict")
    => (last.ret = last.prev /\ ~last.queried)

C4_Witness ==
    last.valid /\ last.prev.kind = "dict" /\ last.hit /\ last.ret = last.prev

C6_SingleAndListShareSlot ==
    (last.valid /\ last.peer) => last.hit

\* the rows the query of call c selects
matching(c) == execute(variant, table, ip_int_to_list, c)

coord(row) == <<row.latitude[1], row.longitude[1]>>

all_coords(rows) ==
    \A i \in 1..Len(rows) : rows[i].latitude # Null /\ rows[i].longitude # Null

\* C7: the record _get_geodata builds from one or more matching rows has
\* the first row's coordinate as location; representative_point is the
\* location for one row and the aggregate of all rows' coordinates for more
C7_LocationAndRepresentativePoint ==
    (last.valid /\ last.queried)
    => LET rows == matching(last.call).rows
           d    == last.ret.d
       IN  /\ (Len(rows) >= 1 /\ all_coords(rows)) => last.ret.kind = "dict"
           /\ last.ret.kind = "dict" =>
                /\ Len(rows) >= 1
                /\ d.location = format_latlon(coord(rows[1])[1], coord(rows[1])[2])
                /\ Len(rows) = 1 => d.representative_point = d.location
                /\ Len(rows) >= 2 =>
                     LET p == representative_point([i \in 1..Len(rows) |-> coord(rows[i])])
                     IN  d.representative_point = format_latlon(p[1], p[2])

C7_Witness ==
    /\ last.valid /\ last.queried /\ last.ret.kind = "dict"
    /\ Len(matching(last.call).rows) >= 2
    /\ last.ret.d.representative_point # last.ret.d.location

\* C8: after a construction that rebuilt the store, self.ip_int_to_list is
\* the ip_to column of the table just loaded, position by position
C8_IndexFollowsRebuild ==
    (alive /\ variant = GeoIP /\ did_load) => Aligned

\* C9: no resolver is constructed over ip_to values that are not ascending
C9_IndexIsAscending ==
    (alive /\ variant = GeoIP) => IsAscending(ip_int_to_list)

\* the rows the query of call c selects, as its own fetchall returns them
own_rows(c) == fetchall(execute(variant, table, ip_int_to_list, c), <<>>)

\* C10: of two callers running different keys at once each fetches the
\* rows of its own query, and every cache entry is the result of a query
\* with the key it is stored under
C10_ConcurrentCallsKeepOwnResult ==
    /\ \A t \in Threads, u \in Threads :
          (/\ t # u /\ pc[t] = "fetched" /\ pc[u] # "idle"
           /\ key_of(tcall[t]) # key_of(tcall[u]))
          => tres[t] = own_rows(tcall[t])
    /\ \A k \in DOMAIN results_cache :
          \E c \in Calls : key_of(c) = k /\ results_cache[k] = Direct(c)

\* C11: a get_geodata call leaves the table of the backing store, the
\* store file, the range index and its side file as they were; in the
\* result cache it keeps every entry and adds at most one, under the key of
\* the call (a step that counts a call is a get_geodata call)
C11_LookupFrame ==
    [][(ncalls' = ncalls + 1) =>
          /\ table' = table /\ db_file' = db_file
          /\ ip_int_to_list' = ip_int_to_list /\ npy_file' = npy_file
          /\ DOMAIN results_cache' \subseteq DOMAIN results_cache \cup {key_of(last'.call)}
          /\ \A k \in DOMAIN results_cache :
                k \in DOMAIN results_cache' /\ results_cache'[k] = results_cache[k]]_vars

C11_Witness ==
    /\ last.valid /\ last.stored /\ key_of(last.call) \in DOMAIN results_cache
    /\ Cardinality(DOMAIN results_cache) = 2
    /\ table # <<>>

\* a column list and a value list of different lengths
mismatched(c) ==
    /\ binds(variant, c)
    /\ column_of(variant, c).t = "list" /\ value_of(variant, c).t = "list"
    /\ Len(column_of(variant, c).l) # Len(value_of(variant, c).l)

\* C12: for the three classes a call whose column list and value list
\* differ in length returns None
C12_MismatchedListsReturnNone ==
    (last.valid /\ mismatched(last.call)) => last.ret = RetNone

\* C13: a call whose query selects a row with a NULL latitude or longitude
\* returns a record or None, it does not raise
C13_NullCoordinateDoesNotRaise ==
    (last.valid /\ last.queried /\ ~all_coords(matching(last.call).rows))
    => last.ret.kind \in {"dict", "None"}

\* the fields no Result Record may carry
raw_fields(v) ==
    {"latitude", "longitude", "index"}
      \cup (IF v = GeoIP THEN {"ip_from", "ip_to"} ELSE {})

\* C14: no record get_geodata returns, computed or served from the cache,
\* and no record the cache holds has a raw latitude or longitude, a row
\* identifier or, for ZIP_GeoIPDB, the ip_from and ip_to of the range
C14_NoRawFields ==
    /\ (last.valid /\ last.ret.kind = "dict")
       => DOMAIN last.ret.d \cap raw_fields(variant) = {}
    /\ \A k \in DOMAIN results_cache :
          DOMAIN results_cache[k].d \cap raw_fields(variant) = {}

C14_Witness ==
    /\ variant = GeoIP /\ last.valid /\ last.hit /\ last.ret.kind = "dict"
    /\ "location" \in DOMAIN last.ret.d

\* twice the signed area of the triangle a, b, c
orient(a, b, c) == (b[1] - a[1]) * (c[2] - a[2]) - (b[2] - a[2]) * (c[1] - a[1])

\* p lies on the closed segment from a to b
on_segment(a, b, p) ==
    /\ orient(a, b, p) = 0
    /\ (a[1] <= p[1] /\ p[1] <= b[1]) \/ (b[1] <= p[1] /\ p[1] <= a[1])
    /\ (a[2] <= p[2] /\ p[2] <= b[2]) \/ (b[2] <= p[2] /\ p[2] <= a[2])

\* p lies in the closed triangle a, b, c, which may be flat
in_triangle(a, b, c, p) ==
    IF orient(a, b, c) # 0
    THEN \/ orient(a, b, p) >= 0 /\ orient(b, c, p) >= 0 /\ orient(c, a, p) >= 0
         \/ orient(a, b, p) <= 0 /\ orient(b, c, p) <= 0 /\ orient(c, a, p) <= 0
    ELSE on_segment(a, b, p) \/ on_segment(b, c, p) \/ on_segment(c, a, p)

\* p lies within or on the convex hull of the points
in_hull(points, p) ==
    \E i \in 1..Len(points), j \in 1..Len(points), k \in 1..Len(points) :
        in_triangle(points[i], points[j], points[k], p)

\* C15: the representative point of a record built from two or more rows
\* lies within or on the convex hull of the rows' coordinates, and the same
\* rows in any other order give the same representative point
C15_RepresentativePointInHullAndOrderFree ==
    (/\ last.valid /\ last.queried /\ last.ret.kind = "dict"
     /\ Len(matching(last.call).rows) >= 2)
    => LET rows == matching(last.call).rows
           pts  == [i \in 1..Len(rows) |-> coord(rows[i])]
           q    == representative_point(pts)
       IN  /\ last.ret.d.representative_point = format_latlon(q[1], q[2])
           /\ in_hull(pts, q)
           /\ \A f \in Permutations(1..Len(rows)) :
                 shape(variant, DictsOf([i \in 1..Len(rows) |-> rows[f[i]]])).d.representative_point
                   = last.ret.d.representative_point

\* C16: when the library lacks FTS5, constructing a ZIPLevel_GeoDB leaves
\* the store file as it was, loads or opens no store and leaves no resolver
\* to call
C16_NoFTS5HaltsBeforeLoader ==
    [][(variant = "ZIPLevel_GeoDB" /\ "ENABLE_FTS5" \notin available_pragmas')
       => /\ db_file' = db_file
          /\ ~alive' /\ ~did_load' /\ table' = <<>>]_vars

C16_Witness ==
    /\ variant = "ZIPLevel_GeoDB"
    /\ available_pragmas # {} /\ "ENABLE_FTS5" \notin available_pragmas
    /\ db_file # Absent /\ ~alive

\* C17: the result cache is empty after construction, and a get_geodata
\* call keeps every key the cache holds with the value stored for it
C17_CacheGrowsMonotonically ==
    [][/\ (alive' /\ ncalls' = 0) => results_cache' = EmptyDict
       /\ (ncalls' = ncalls + 1) =>
             \A k \in DOMAIN results_cache :
                 k \in DOMAIN results_cache' /\ results_cache'[k] = results_cache[k]]_vars

C17_Witness ==
    /\ alive /\ ncalls = 2 /\ Cardinality(DOMAIN results_cache) = 2
    /\ last.valid /\ last.stored

\* the documents of the lines that parse among lines first..last of the
\* input, in input order
documents_of(lines, first, last_line) ==
    LET kept == SelectSeq(SubSeq(lines, first, last_line), parses)
    IN  [i \in 1..Len(kept) |-> document(kept[i])]

\* C18: with --skip_first_line the generator has yielded one document for
\* every line read after the first that parses, in input order; without
\* the flag one for every line read that parses
C18_SkipsExactlyFirstLine ==
    documents = documents_of(input, IF skip_first_line THEN 2 ELSE 1, lineno)

====
